---- MODULE Spec2Model ----
(***************************************************************************)
(* State-machine model of load_trees_from_file.py: the completion of a     *)
(* Merkle root from a full layer of subtree roots (complete_tree,          *)
(* combine_nodes), the batch-level commit of load_info, and the building   *)
(* of a tree from csv rows (update_vaults, update_orders).                 *)
(*                                                                         *)
(* The fact store, the hash and the node-fact helpers are imported by the  *)
(* source file from other packages; they are modelled by their contract:   *)
(* a content-addressed key/value store whose key is the hash of the value, *)
(* and a collision-free, position-sensitive hash.  A token (hash value) is *)
(* a sequence of naturals, the prefix code of the hashed content, so that  *)
(* two tokens are equal exactly when the hashed contents are.              *)
(***************************************************************************)
EXTENDS Integers, Sequences, FiniteSets, TLC

(***************************************************************************)
(* Bounds of the model.                                                    *)
(***************************************************************************)
MaxLen == 4        \* longest layer handed to complete_tree
NStored == 2       \* subtree roots present in the store at the start
MaxRuns == 2       \* operations one caller starts, one after the other
MaxBatchId == 1    \* batch ids are 0..MaxBatchId
MaxHeight == 2     \* tallest tree update_vaults / update_orders builds
MaxVal == 2        \* leaf payloads are 0..MaxVal
MaxMods == 2       \* most rows of a csv file
MaxNodeHeight == 2 \* heights of the nodes handed to combine_nodes directly

Callers == {"p", "q"}

(***************************************************************************)
(* Hash and facts.                                                         *)
(***************************************************************************)
NoToken == << >>

\* MerkleNodeFact(left_node=..., right_node=...): the value of an internal fact.
MerkleNodeFact(l, r) == [left_node |-> l, right_node |-> r]

\* The value of a leaf fact with payload v.
LeafFact(v) == [value |-> v]

\* The content hash of a fact (pedersen_hash_func over the fact's content).
HashFact(fact) ==
    IF "value" \in DOMAIN fact
    THEN <<1, fact.value>>
    ELSE <<0>> \o fact.left_node \o fact.right_node

\* MerkleTreeNode(root=..., height=...)
MerkleTreeNode(root, h) == [root |-> root, height |-> h]

NoNode == MerkleTreeNode(NoToken, 0)

(***************************************************************************)
(* The fact store: a function from the keys present to their values.       *)
(***************************************************************************)
\* storage.get_value(key) is not None
HasFact(st, key) == key \in DOMAIN st

\* write_node_fact: store (hash, value) if absent, return the hash.
write_node_fact(st, fact) ==
    LET key == HashFact(fact)
    IN  IF key \in DOMAIN st THEN st
        ELSE [k \in DOMAIN st \cup {key} |-> IF k = key THEN fact ELSE st[k]]

\* The subtree roots a dump lists: root i is the root of a height-1 subtree
\* over the leaves i and 0.  Roots 1..NStored are in the store at the start,
\* root 0 is not.
SubtreeFact(i) == MerkleNodeFact(HashFact(LeafFact(i)), HashFact(LeafFact(0)))
SubtreeRoot(i) == HashFact(SubtreeFact(i))

InitFacts ==
    {LeafFact(i) : i \in 0..NStored} \cup {SubtreeFact(i) : i \in 1..NStored}

InitStore ==
    [k \in {HashFact(f) : f \in InitFacts} |->
        CHOOSE f \in InitFacts : HashFact(f) = k]

LayerTokens == {SubtreeRoot(i) : i \in 0..NStored}

SeqsUpTo(S, n) == UNION {[1..m -> S] : m \in 0..n}

Layers == SeqsUpTo(LayerTokens, MaxLen)

\* A store that also holds the root of a subtree one level taller than the
\* subtree roots: the combination of the subtree roots 1 and 2.
DeepFact == MerkleNodeFact(SubtreeRoot(1), SubtreeRoot(2))
DeepRoot == HashFact(DeepFact)
DeepStore == write_node_fact(InitStore, DeepFact)

\* Layers that mix stored roots of subtrees of different depths.
DepthLayers == SeqsUpTo({SubtreeRoot(1), DeepRoot}, MaxLen)

\* The distance of a stored node to its leaves.
RECURSIVE TrueDepth(_, _)
TrueDepth(st, token) ==
    IF "value" \in DOMAIN st[token] THEN 0
    ELSE 1 + TrueDepth(st, st[token].left_node)

(***************************************************************************)
(* Pure helpers of complete_tree.                                          *)
(***************************************************************************)
\* int(math.log(n, 2)) for n >= 1 (math.log(0, 2) raises ValueError).
IntLog2(n) == CHOOSE h \in 0..n : 2^h <= n /\ n < 2^(h + 1)

\* subtrees[::2]
EvenSlice(s) == [i \in 1..((Len(s) + 1) \div 2) |-> s[2 * i - 1]]

\* subtrees[1::2]
OddSlice(s) == [i \in 1..(Len(s) \div 2) |-> s[2 * i]]

Min(a, b) == IF a <= b THEN a ELSE b

\* zip(a, b)
Zip(a, b) == [i \in 1..Min(Len(a), Len(b)) |-> <<a[i], b[i]>>]

\* zip(subtrees[::2], subtrees[1::2]): (left, right) of every pair, in order.
\* Mutant of Pairs: the first half zipped with the second half.
PairsByHalves(s) ==
    [i \in 1..(Len(s) \div 2) |-> <<s[i], s[i + Len(s) \div 2]>>]

Pairs(s) == Zip(EvenSlice(s), OddSlice(s))

(***************************************************************************)
(* State.                                                                  *)
(***************************************************************************)
VARIABLES
    store,        \* the fact store (self.storage, the facts)
    batchInfo,    \* storage under Committee.committee_batch_info_key(batch_id)
    nextBatchId,  \* storage under Committee.next_batch_id_key()
    proc,         \* per caller: the position and locals of the running command
    hist          \* per caller: what the run has done so far (observation only)

vars == <<store, batchInfo, nextBatchId, proc, hist>>

NoInfo == [order_root |-> NoToken, written |-> FALSE]

\* dump_info.batch_info.serialize(): the record binds the claimed order root.
BatchInfoRecord(claimed) == [order_root |-> claimed, written |-> TRUE]

BatchIds == 0..MaxBatchId

IdleProc ==
    [op |-> "none", pc |-> "idle", nodes |-> << >>, height |-> 0,
     subtrees |-> << >>, idx |-> 0, round |-> 0, tasks |-> << >>,
     exc |-> "none", result |-> NoToken, err |-> "none",
     batch_id |-> 0, claimed |-> NoToken, set_next |-> FALSE,
     todo |-> << >>, tree |-> NoNode, tree0 |-> NoNode, mods |-> << >>,
     upd |-> "none"]

IdleHist ==
    [runs |-> 0, started |-> << >>, finished |-> << >>, added |-> {},
     retry |-> "none", store0 |-> InitStore,
     info0 |-> [b \in BatchIds |-> NoInfo], next0 |-> 0,
     returned |-> NoToken, committed |-> FALSE, reordered |-> FALSE]

Init ==
    /\ store = InitStore
    /\ batchInfo = [b \in BatchIds |-> NoInfo]
    /\ nextBatchId = 0
    /\ proc = [c \in Callers |-> IdleProc]
    /\ hist = [c \in Callers |-> IdleHist]

\* The state after construction over the store with the taller subtree.
InitDeep ==
    /\ store = DeepStore
    /\ batchInfo = [b \in BatchIds |-> NoInfo]
    /\ nextBatchId = 0
    /\ proc = [c \in Callers |-> IdleProc]
    /\ hist = [c \in Callers |-> [IdleHist EXCEPT !.store0 = DeepStore]]

\* An exception leaves the command: nothing is returned.
Raise(p, e) == [p EXCEPT !.pc = "failed", !.err = e, !.result = NoToken]

Ended(p) == p.pc \in {"done", "failed"}

\* What a run records when it starts (k: how it relates to the run before).
NewHist(c, k) ==
    [runs |-> hist[c].runs + 1, started |-> << >>, finished |-> << >>,
     added |-> {}, retry |-> k,
     store0 |-> IF k = "none" THEN store ELSE hist[c].store0,
     info0 |-> batchInfo, next0 |-> nextBatchId,
     returned |-> NoToken, committed |-> FALSE, reordered |-> FALSE]

(***************************************************************************)
(* complete_tree                                                           *)
(***************************************************************************)
\* The power-of-two check on the layer's length.
LengthCheck(n) ==
    IF n = 0 THEN "ValueError"
    ELSE IF 2 ^ IntLog2(n) = n THEN "ok" ELSE "AssertionError"

\* subtrees = [MerkleTreeNode(root=node, height=0) for node in nodes]
\* Mutant of WrapNodes: every node gets the depth of its stored subtree.
WrapNodesTrueDepth(layer) ==
    [i \in DOMAIN layer |-> MerkleTreeNode(layer[i], TrueDepth(DeepStore, layer[i]))]

WrapNodes(layer) == [i \in DOMAIN layer |-> MerkleTreeNode(layer[i], 0)]

\* Entry of complete_tree up to its first await: the length check and the
\* wrapping of every token as a node of placeholder height 0.
EnterCompleteTree(p, layer) ==
    LET n == Len(layer)
        q == [p EXCEPT !.nodes = layer]
    IN  IF LengthCheck(n) # "ok" THEN Raise(q, LengthCheck(n))
        ELSE [q EXCEPT !.height = IntLog2(n),
                       !.subtrees = WrapNodes(layer),
                       !.idx = 1,
                       !.pc = "probe"]

\* A direct call complete_tree(nodes, storage).
CallCompleteTree(c, layer) ==
    /\ proc[c].pc = "idle"
    /\ proc' = [proc EXCEPT ![c] =
                  EnterCompleteTree([IdleProc EXCEPT !.op = "complete_tree"], layer)]
    /\ hist' = [hist EXCEPT ![c] = NewHist(c, "none")]
    /\ UNCHANGED <<store, batchInfo, nextBatchId>>

\* The caller runs complete_tree again, from scratch, on the same layer.
RetryCompleteTree(c) ==
    LET p == proc[c]
    IN  /\ p.op = "complete_tree"
        /\ Ended(p)
        /\ hist[c].runs < MaxRuns
        /\ proc' = [proc EXCEPT ![c] =
              EnterCompleteTree([IdleProc EXCEPT !.op = "complete_tree"], p.nodes)]
        /\ hist' = [hist EXCEPT ![c] =
              NewHist(c, IF p.pc = "done" THEN "after_ok"
                         ELSE IF p.tasks # << >> THEN "after_partial"
                         ELSE "after_failed")]
        /\ UNCHANGED <<store, batchInfo, nextBatchId>>

\* tree.get_children(ffc): succeeds iff the node's fact is in the store.
\* Mutant of GetChildrenOk: the fetch succeeds for every token.
GetChildrenOkAlways(st, tree) == TRUE

GetChildrenOk(st, tree) == HasFact(st, tree.root)

\* The next index the existence probe has to fetch, 0 when none is left.
\* Mutant of NextProbe: only the first token is probed.
NextProbeFirstOnly(p) == 0

NextProbe(p) == IF p.idx < Len(p.subtrees) THEN p.idx + 1 ELSE 0

\* for tree in subtrees: await tree.get_children(ffc) -- one fetch returns.
Probe(c) ==
    LET p == proc[c]
    IN  /\ p.pc = "probe"
        /\ proc' = [proc EXCEPT ![c] =
             IF ~GetChildrenOk(store, p.subtrees[p.idx]) THEN Raise(p, "NotFound")
             ELSE IF NextProbe(p) # 0 THEN [p EXCEPT !.idx = NextProbe(p)]
             ELSE [p EXCEPT !.pc = "loop", !.round = 0, !.idx = 0]]
        /\ UNCHANGED <<store, batchInfo, nextBatchId, hist>>

\* The rounds complete_tree runs: range(height).
\* Mutant of Rounds: one round too many.
RoundsOneMore(p) == p.height + 1

\* Mutant of Rounds: one round too few.
RoundsOneLess(p) == p.height - 1

Rounds(p) == p.height

\* A coroutine combine_nodes(ffc, left, right) that has not started.
NewTask(left, right) ==
    [st |-> "pending", left |-> left, right |-> right,
     fact |-> MerkleNodeFact(NoToken, NoToken), res |-> NoNode, seq |-> 0]

\* The coroutines combine_nodes(ffc, left, right) handed to asyncio.gather.
NewTasks(s) ==
    [i \in DOMAIN Pairs(s) |-> NewTask(Pairs(s)[i][1], Pairs(s)[i][2])]

\* Head of one round (the assertion and the creation of the round's tasks by
\* asyncio.gather), or, after the last round, the return of the root.
Loop(c) ==
    LET p == proc[c]
    IN  /\ p.pc = "loop"
        /\ IF p.round < Rounds(p)
           THEN IF Len(p.subtrees) % 2 # 0
                THEN /\ proc' = [proc EXCEPT ![c] = Raise(p, "AssertionError")]
                     /\ hist' = hist
                ELSE /\ proc' = [proc EXCEPT ![c] =
                           [p EXCEPT !.tasks = NewTasks(p.subtrees),
                                     !.exc = "none", !.pc = "gather"]]
                     /\ hist' = [hist EXCEPT ![c].started = Append(@, 0),
                                             ![c].finished = Append(@, 0)]
           ELSE IF Len(p.subtrees) # 1
                THEN /\ proc' = [proc EXCEPT ![c] = Raise(p, "AssertionError")]
                     /\ hist' = hist
                ELSE /\ proc' = [proc EXCEPT ![c] =
                           [p EXCEPT !.result = p.subtrees[1].root,
                                     !.pc = IF p.op = "load_info"
                                            THEN "check" ELSE "done"]]
                     /\ hist' = [hist EXCEPT ![c].returned = p.subtrees[1].root]
        /\ UNCHANGED <<store, batchInfo, nextBatchId>>

\* The tasks of a gather keep running after the gather has raised.
TasksLive(p) == p.pc \in {"gather", "combine", "failed"} /\ p.tasks # << >>

\* assert left.height == right.height
\* Mutant of HeightsMatch: the assertion is dropped.
HeightsMatchAlways(left, right) == TRUE

HeightsMatch(left, right) == left.height = right.height

\* combine_nodes up to its await: the equal-height assertion and the fact.
CombineStart(c, i) ==
    LET p == proc[c]
        t == p.tasks[i]
    IN  /\ TasksLive(p)
        /\ i \in DOMAIN p.tasks
        /\ t.st = "pending"
        /\ IF ~HeightsMatch(t.left, t.right)
           THEN proc' = [proc EXCEPT ![c] =
                   [p EXCEPT !.tasks[i].st = "failed",
                             !.exc = IF @ = "none" THEN "AssertionError" ELSE @]]
           ELSE proc' = [proc EXCEPT ![c] =
                   [p EXCEPT !.tasks[i].st = "writing",
                             !.tasks[i].fact =
                                 MerkleNodeFact(t.left.root, t.right.root)]]
        /\ hist' = [hist EXCEPT ![c].started[p.round + 1] = @ + 1]
        /\ UNCHANGED <<store, batchInfo, nextBatchId>>

\* Mutant of CombineStore: the key is not derived from the content alone.
CombineStoreSalted(st, fact) ==
    LET key == HashFact(fact) \o <<Cardinality(DOMAIN st)>>
    IN  [k \in DOMAIN st \cup {key} |-> IF k = key THEN fact ELSE st[k]]

\* Mutant of CombineStore: a fact already present is stored a second time.
CombineStoreCopy(st, fact) ==
    LET key == IF HashFact(fact) \in DOMAIN st
               THEN HashFact(fact) \o <<0>> ELSE HashFact(fact)
    IN  [k \in DOMAIN st \cup {key} |-> IF k = key THEN fact ELSE st[k]]

\* Mutant of CombineStore: the fact replaces the fact of its left child.
CombineStoreOverChild(st, fact) ==
    [k \in DOMAIN st \cup {fact.left_node} |->
        IF k = fact.left_node THEN fact ELSE st[k]]

\* The store after combine_nodes has written its fact.
CombineStore(st, fact) == write_node_fact(st, fact)

\* The tasks of a gather that have returned.
Returned(ts) == {j \in DOMAIN ts : ts[j].st = "done"}

\* combine_nodes after its await: the fact is written, the parent returned.
\* seq is the position of the task among the tasks of its gather in the order
\* of their completion.
CombineWrite(c, i) ==
    LET p == proc[c]
        t == p.tasks[i]
    IN  /\ TasksLive(p)
        /\ i \in DOMAIN p.tasks
        /\ t.st = "writing"
        /\ store' = CombineStore(store, t.fact)
        /\ proc' = [proc EXCEPT ![c] =
              [p EXCEPT !.tasks[i].st = "done",
                        !.tasks[i].seq = Cardinality(Returned(p.tasks)) + 1,
                        !.tasks[i].res =
                            MerkleTreeNode(HashFact(t.fact), t.left.height + 1)]]
        /\ hist' = [hist EXCEPT
              ![c].finished[p.round + 1] = @ + 1,
              ![c].added = @ \cup (DOMAIN store' \ DOMAIN store)]
        /\ UNCHANGED <<batchInfo, nextBatchId>>

\* asyncio.gather returns when every task has returned.
\* Mutant of GatherReady: the gather returns on the first finished task.
GatherReadyAny(ts) == \E i \in DOMAIN ts : ts[i].st = "done"

GatherReady(ts) == \A i \in DOMAIN ts : ts[i].st = "done"

\* The results of a gather, in the order of its arguments.
\* Mutant of GatherResults: the results in the order of their completion.
GatherResultsByCompletion(ts) ==
    [i \in DOMAIN ts |-> ts[CHOOSE j \in DOMAIN ts : ts[j].seq = i].res]

\* Some task of the gather returned before a task that precedes it.
OutOfOrder(ts) ==
    \E i \in Returned(ts), j \in Returned(ts) : i < j /\ ts[i].seq > ts[j].seq

GatherResults(ts) == [i \in DOMAIN ts |-> ts[i].res]

\* await asyncio.gather(...): the first exception is raised, or the results
\* become the next layer.
GatherReturn(c) ==
    LET p == proc[c]
    IN  /\ p.pc = "gather"
        /\ p.exc # "none" \/ GatherReady(p.tasks)
        /\ proc' = [proc EXCEPT ![c] =
              IF p.exc # "none" THEN Raise(p, p.exc)
              ELSE [p EXCEPT !.subtrees = GatherResults(p.tasks),
                             !.tasks = << >>,
                             !.round = @ + 1,
                             !.pc = "loop"]]
        /\ hist' = [hist EXCEPT ![c].reordered = @ \/ OutOfOrder(p.tasks)]
        /\ UNCHANGED <<store, batchInfo, nextBatchId>>

TaskIds == 1..(MaxLen \div 2)

\* The nodes a direct caller hands to combine_nodes.
CombineArgs ==
    {MerkleTreeNode(t, h) : t \in LayerTokens, h \in 0..MaxNodeHeight}

\* A direct call combine_nodes(ffc, left, right).
CallCombineNodes(c, left, right) ==
    /\ proc[c].pc = "idle"
    /\ proc' = [proc EXCEPT ![c] =
          [IdleProc EXCEPT !.op = "combine_nodes", !.pc = "combine",
                           !.tasks = <<NewTask(left, right)>>]]
    /\ hist' = [hist EXCEPT ![c] =
          [NewHist(c, "none") EXCEPT !.started = <<0>>, !.finished = <<0>>]]
    /\ UNCHANGED <<store, batchInfo, nextBatchId>>

\* The direct call returns its node or raises.
CombineReturn(c) ==
    LET p == proc[c]
    IN  /\ p.pc = "combine"
        /\ p.tasks[1].st \in {"done", "failed"}
        /\ proc' = [proc EXCEPT ![c] =
              IF p.exc # "none" THEN Raise(p, p.exc)
              ELSE [p EXCEPT !.tree = p.tasks[1].res,
                             !.result = p.tasks[1].res.root,
                             !.pc = "done"]]
        /\ UNCHANGED <<store, batchInfo, nextBatchId, hist>>

CompleteTreeStep(c) ==
    \/ Probe(c)
    \/ Loop(c)
    \/ \E i \in TaskIds : CombineStart(c, i)
    \/ \E i \in TaskIds : CombineWrite(c, i)
    \/ GatherReturn(c)

(***************************************************************************)
(* Store failures: every await on the store may raise instead.             *)
(***************************************************************************)
\* get_children raises a store error.
ProbeStoreError(c) ==
    /\ proc[c].pc = "probe"
    /\ proc' = [proc EXCEPT ![c] = Raise(@, "StoreError")]
    /\ UNCHANGED <<store, batchInfo, nextBatchId, hist>>

\* write_node_fact raises a store error: the fact is not written.
CombineStoreError(c, i) ==
    LET p == proc[c]
    IN  /\ TasksLive(p)
        /\ i \in DOMAIN p.tasks
        /\ p.tasks[i].st = "writing"
        /\ proc' = [proc EXCEPT ![c] =
              [p EXCEPT !.tasks[i].st = "failed",
                        !.exc = IF @ = "none" THEN "StoreError" ELSE @]]
        /\ UNCHANGED <<store, batchInfo, nextBatchId, hist>>

CompleteTreeFault(c) ==
    \/ ProbeStoreError(c)
    \/ \E i \in TaskIds : CombineStoreError(c, i)

(***************************************************************************)
(* MainHandler.load_info                                                   *)
(***************************************************************************)
\* The order subtree roots an info file lists: a valid stored layer of each
\* length, a layer with a missing token, and layers of invalid length.
InfoLayers ==
    { << >>,
      <<SubtreeRoot(1)>>,
      <<SubtreeRoot(1), SubtreeRoot(2)>>,
      <<SubtreeRoot(1), SubtreeRoot(0)>>,
      <<SubtreeRoot(1), SubtreeRoot(2), SubtreeRoot(1)>>,
      <<SubtreeRoot(1), SubtreeRoot(2), SubtreeRoot(2), SubtreeRoot(1)>> }

\* The order roots an info file claims (batch_info.merkle_roots["order"]).
ClaimedRoots ==
    { SubtreeRoot(1),
      HashFact(MerkleNodeFact(SubtreeRoot(1), SubtreeRoot(2))) }

\* load_info up to its first await: the info file is parsed and complete_tree
\* entered on the listed subtree roots.
CallLoadInfo(c, layer, claimed, bid, flag) ==
    /\ proc[c].pc = "idle" \/ (Ended(proc[c]) /\ hist[c].runs < MaxRuns)
    /\ proc' = [proc EXCEPT ![c] =
          EnterCompleteTree([IdleProc EXCEPT !.op = "load_info",
                                             !.batch_id = bid,
                                             !.claimed = claimed,
                                             !.set_next = flag], layer)]
    /\ hist' = [hist EXCEPT ![c] = NewHist(c, "none")]
    /\ UNCHANGED <<store, batchInfo, nextBatchId>>

\* A single load_info run for batch 0 with --set_next_batch_id.
CallLoadInfoOnce(c, layer, claimed) ==
    /\ proc[c].pc = "idle"
    /\ CallLoadInfo(c, layer, claimed, 0, TRUE)

\* assert order_tree_root == dump_info.batch_info.merkle_roots["order"]
\* Mutant of RootsAgree: the cross-check is skipped.
RootsAgreeAlways(p) == TRUE

RootsAgree(p) == p.result = p.claimed

CheckRoot(c) ==
    LET p == proc[c]
    IN  /\ p.pc = "check"
        /\ proc' = [proc EXCEPT ![c] =
              IF RootsAgree(p) THEN [p EXCEPT !.pc = "write_info"]
              ELSE Raise(p, "AssertionError")]
        /\ UNCHANGED <<store, batchInfo, nextBatchId, hist>>

\* await self.storage.set_value(committee_batch_info_key(batch_id), ...)
WriteBatchInfo(c) ==
    LET p == proc[c]
    IN  /\ p.pc = "write_info"
        /\ batchInfo' = [batchInfo EXCEPT ![p.batch_id] = BatchInfoRecord(p.claimed)]
        /\ proc' = [proc EXCEPT ![c].pc = IF p.set_next THEN "set_next" ELSE "done"]
        /\ hist' = [hist EXCEPT ![c].committed = TRUE]
        /\ UNCHANGED <<store, nextBatchId>>

\* next_batch_id = dump_info.batch_id + 1
\* Mutant of NextBatchIdOf: the batch id itself is written.
NextBatchIdSame(p) == p.batch_id

NextBatchIdOf(p) == p.batch_id + 1

\* await self.storage.set_int(Committee.next_batch_id_key(), next_batch_id)
SetNextBatchId(c) ==
    LET p == proc[c]
    IN  /\ p.pc = "set_next"
        /\ nextBatchId' = NextBatchIdOf(p)
        /\ proc' = [proc EXCEPT ![c].pc = "done"]
        /\ UNCHANGED <<store, batchInfo, hist>>

LoadInfoStep(c) ==
    \/ CheckRoot(c)
    \/ WriteBatchInfo(c)
    \/ SetNextBatchId(c)

\* set_value raises a store error: the record is not written.
WriteBatchInfoStoreError(c) ==
    /\ proc[c].pc = "write_info"
    /\ proc' = [proc EXCEPT ![c] = Raise(@, "StoreError")]
    /\ UNCHANGED <<store, batchInfo, nextBatchId, hist>>

\* set_int raises a store error: the counter is not written.
SetNextStoreError(c) ==
    /\ proc[c].pc = "set_next"
    /\ proc' = [proc EXCEPT ![c] = Raise(@, "StoreError")]
    /\ UNCHANGED <<store, batchInfo, nextBatchId, hist>>

LoadInfoFault(c) ==
    \/ WriteBatchInfoStoreError(c)
    \/ SetNextStoreError(c)

(***************************************************************************)
(* update_vaults / update_orders                                           *)
(*                                                                         *)
(* MerkleTree.empty_tree and MerkleTree.update are imported; they are      *)
(* modelled by their contract: empty_tree writes the Empty leaf and one    *)
(* internal fact per level, update bisects the index range, reuses the     *)
(* token of every half without a modification and writes the facts of the  *)
(* touched paths, children before parents, the root fact last.             *)
(***************************************************************************)
\* VaultState.empty() / OrderState.empty(): the payload of the Empty leaf.
EmptyLeaf == LeafFact(0)

\* The root of MerkleTree.empty_tree(ffc, height, empty leaf) at height h.
RECURSIVE EmptyRoot(_)
EmptyRoot(h) ==
    IF h = 0 THEN HashFact(EmptyLeaf)
    ELSE HashFact(MerkleNodeFact(EmptyRoot(h - 1), EmptyRoot(h - 1)))

\* The facts empty_tree writes, leaves first: the Empty leaf and one internal
\* fact per level.
EmptyTreeFacts(h) ==
    [k \in 1..(h + 1) |->
        IF k = 1 THEN EmptyLeaf
        ELSE MerkleNodeFact(EmptyRoot(k - 2), EmptyRoot(k - 2))]

\* The modifications whose index lies in [base, base + 2^h).
\* Mutant of InRange: the first index of the range is left out.
InRangeOpen(mods, base, h) == {i \in DOMAIN mods : base < i /\ i < base + 2 ^ h}

InRange(mods, base, h) == {i \in DOMAIN mods : base <= i /\ i < base + 2 ^ h}

\* The existing nodes the update has to fetch are in the store.
RECURSIVE Readable(_, _, _, _, _)
Readable(st, root, h, base, mods) ==
    IF InRange(mods, base, h) = {} \/ h = 0 THEN TRUE
    ELSE /\ root \in DOMAIN st
         /\ "left_node" \in DOMAIN st[root]
         /\ Readable(st, st[root].left_node, h - 1, base, mods)
         /\ Readable(st, st[root].right_node, h - 1, base + 2 ^ (h - 1), mods)

\* The internal fact the update writes for a range, from the tokens of its
\* lower and upper halves.
\* Mutant of UpdateNode: the halves are combined in the wrong order.
UpdateNodeSwapped(lower, upper) == MerkleNodeFact(upper, lower)

UpdateNode(lower, upper) == MerkleNodeFact(lower, upper)

\* The token of the subtree of height h over [base, base + 2^h) after the
\* update with mods of the subtree whose token is root: the token itself when
\* no modification falls in the range, the new leaf at height 0, and else the
\* combination of the two updated halves.
RECURSIVE UpdatedRoot(_, _, _, _, _)
UpdatedRoot(st, root, h, base, mods) ==
    IF InRange(mods, base, h) = {} THEN root
    ELSE IF h = 0 THEN HashFact(LeafFact(mods[base]))
    ELSE HashFact(UpdateNode(
            UpdatedRoot(st, st[root].left_node, h - 1, base, mods),
            UpdatedRoot(st, st[root].right_node, h - 1,
                        base + 2 ^ (h - 1), mods)))

\* The facts the update writes for that subtree, children before parents;
\* a half without modifications is neither visited nor written.
RECURSIVE UpdateFacts(_, _, _, _, _)
UpdateFacts(st, root, h, base, mods) ==
    IF InRange(mods, base, h) = {} THEN << >>
    ELSE IF h = 0 THEN <<LeafFact(mods[base])>>
    ELSE UpdateFacts(st, st[root].left_node, h - 1, base, mods)
         \o UpdateFacts(st, st[root].right_node, h - 1,
                        base + 2 ^ (h - 1), mods)
         \o <<UpdateNode(
                UpdatedRoot(st, st[root].left_node, h - 1, base, mods),
                UpdatedRoot(st, st[root].right_node, h - 1,
                            base + 2 ^ (h - 1), mods))>>

\* The indices of a tree of height h.
Indices(h) == 0..(2 ^ h - 1)

\* What a query of a token finds when a fact on the way is not in the store.
NotFoundFact == [missing |-> TRUE]

\* The leaf fact index i of the tree (root, h) resolves to in the store st:
\* the facts are fetched from the root down, left for the lower half of the
\* index range and right for the upper half.
RECURSIVE Resolve(_, _, _, _)
Resolve(st, root, h, i) ==
    IF root \notin DOMAIN st THEN NotFoundFact
    ELSE IF h = 0 THEN st[root]
    ELSE IF "left_node" \notin DOMAIN st[root] THEN NotFoundFact
    ELSE IF i < 2 ^ (h - 1) THEN Resolve(st, st[root].left_node, h - 1, i)
    ELSE Resolve(st, st[root].right_node, h - 1, i - 2 ^ (h - 1))

\* The modification maps over the indices of a tree of height h: at most
\* MaxMods rows, payloads 0..MaxVal (0 is the payload of the Empty leaf).
ModMaps(h) ==
    UNION {[S -> 0..MaxVal] :
              S \in {T \in SUBSET Indices(h) : Cardinality(T) <= MaxMods}}

\* The csv files read: a height and the leaves the rows set.
UpdateInputs ==
    { [height |-> 1, mods |-> << >>],
      [height |-> 1, mods |-> (0 :> 1)],
      [height |-> 2, mods |-> (0 :> 1 @@ 2 :> 2)] }

\* Every height up to MaxHeight with every modification map over it.
AllUpdateInputs ==
    UNION {{[height |-> h, mods |-> m] : m \in ModMaps(h)} : h \in 0..MaxHeight}

\* update_vaults / update_orders up to the first fact write: the rows are
\* read into the dictionary and empty_tree is entered.
CallUpdate(c, in) ==
    /\ proc[c].pc = "idle"
    /\ proc' = [proc EXCEPT ![c] =
          [IdleProc EXCEPT !.op = "update", !.pc = "empty",
                           !.height = in.height,
                           !.mods = in.mods,
                           !.todo = EmptyTreeFacts(in.height)]]
    /\ hist' = [hist EXCEPT ![c] = NewHist(c, "none")]
    /\ UNCHANGED <<store, batchInfo, nextBatchId>>

\* The tree an update returns: the new root at the height of the tree updated.
\* Mutant of UpdatedTree: the returned tree is one level taller.
UpdatedTreeTaller(tree, root) == MerkleTreeNode(root, tree.height + 1)

UpdatedTree(tree, root) == MerkleTreeNode(root, tree.height)

\* tree.update(ffc, mods) up to its first fact write, on the store st.  With
\* nothing to write the tree is returned as it is.
StartUpdate(p, st, mods, kind) ==
    LET q == [p EXCEPT !.tree0 = p.tree, !.mods = mods, !.upd = kind]
    IN  IF ~Readable(st, p.tree.root, p.tree.height, 0, mods)
        THEN Raise(q, "NotFound")
        ELSE IF UpdateFacts(st, p.tree.root, p.tree.height, 0, mods) = << >>
        THEN [q EXCEPT !.todo = << >>,
                       !.tree = UpdatedTree(p.tree, p.tree.root),
                       !.result = p.tree.root,
                       !.pc = "done"]
        ELSE [q EXCEPT !.todo = UpdateFacts(st, p.tree.root, p.tree.height,
                                            0, mods),
                       !.pc = "update"]

\* One fact of the empty tree is written; after the last, empty_tree returns
\* and the update of the empty tree with the rows read starts.
EmptyTreeWrite(c) ==
    LET p == proc[c]
    IN  /\ p.pc = "empty"
        /\ store' = write_node_fact(store, Head(p.todo))
        /\ proc' = [proc EXCEPT ![c] =
              IF Len(p.todo) > 1 THEN [p EXCEPT !.todo = Tail(@)]
              ELSE StartUpdate(
                      [p EXCEPT !.todo = << >>,
                                !.tree = MerkleTreeNode(EmptyRoot(p.height),
                                                        p.height)],
                      store', p.mods, "first")]
        /\ hist' = [hist EXCEPT
              ![c].added = @ \cup (DOMAIN store' \ DOMAIN store)]
        /\ UNCHANGED <<batchInfo, nextBatchId>>

\* One fact of the update is written; the last one is the root fact, and its
\* token is the root of the tree returned.
UpdateWrite(c) ==
    LET p == proc[c]
    IN  /\ p.pc = "update"
        /\ store' = write_node_fact(store, Head(p.todo))
        /\ proc' = [proc EXCEPT ![c] =
              IF Len(p.todo) > 1 THEN [p EXCEPT !.todo = Tail(@)]
              ELSE [p EXCEPT !.todo = << >>,
                             !.tree = UpdatedTree(p.tree, HashFact(Head(p.todo))),
                             !.result = HashFact(Head(p.todo)),
                             !.pc = "done"]]
        /\ hist' = [hist EXCEPT
              ![c].added = @ \cup (DOMAIN store' \ DOMAIN store)]
        /\ UNCHANGED <<batchInfo, nextBatchId>>

UpdateStep(c) == EmptyTreeWrite(c) \/ UpdateWrite(c)

\* The tree returned is updated with a further modification map.
UpdateTree(c, mods) ==
    LET p == proc[c]
    IN  /\ p.op = "update" /\ p.pc = "done" /\ p.upd = "first"
        /\ mods \in ModMaps(p.tree.height)
        /\ proc' = [proc EXCEPT ![c] = StartUpdate(p, store, mods, "next")]
        /\ UNCHANGED <<store, batchInfo, nextBatchId, hist>>

\* The tree returned is updated once more with the same modification map.
RepeatUpdate(c) ==
    LET p == proc[c]
    IN  /\ p.op = "update" /\ p.pc = "done" /\ p.upd = "next"
        /\ proc' = [proc EXCEPT ![c] = StartUpdate(p, store, p.mods, "repeat")]
        /\ UNCHANGED <<store, batchInfo, nextBatchId, hist>>

\* A fact write of empty_tree or of the update raises a store error.
UpdateStoreError(c) ==
    /\ proc[c].pc \in {"empty", "update"}
    /\ proc' = [proc EXCEPT ![c] = Raise(@, "StoreError")]
    /\ UNCHANGED <<store, batchInfo, nextBatchId, hist>>

(***************************************************************************)
(* Specifications.                                                         *)
(***************************************************************************)
\* One complete_tree call over a reliable store.
Next ==
    \/ \E layer \in Layers : CallCompleteTree("p", layer)
    \/ CompleteTreeStep("p")

Spec == Init /\ [][Next]_vars

\* The same, with the event loop running every coroutine that can run and
\* the store answering every request.
FairSpec == Spec /\ WF_vars(CompleteTreeStep("p"))

\* complete_tree over a store that may fail, retried from scratch.
NextFail ==
    \/ \E layer \in Layers : CallCompleteTree("p", layer)
    \/ RetryCompleteTree("p")
    \/ CompleteTreeStep("p")
    \/ CompleteTreeFault("p")

SpecFail == Init /\ [][NextFail]_vars

\* A sequence of load_info runs over a store that may fail.
NextInfo ==
    \/ \E layer \in InfoLayers, claimed \in ClaimedRoots,
          bid \in BatchIds, flag \in BOOLEAN :
            CallLoadInfo("p", layer, claimed, bid, flag)
    \/ CompleteTreeStep("p")
    \/ CompleteTreeFault("p")
    \/ LoadInfoStep("p")
    \/ LoadInfoFault("p")

SpecInfo == Init /\ [][NextInfo]_vars

\* The second caller completes the layer the first caller was given.
CallSameLayer(c, d) ==
    /\ proc[d].op = "complete_tree"
    /\ CallCompleteTree(c, proc[d].nodes)

\* Two independent callers complete the same layer against the same store.
NextConc ==
    \/ \E layer \in Layers : CallCompleteTree("p", layer)
    \/ CallSameLayer("q", "p")
    \/ \E c \in Callers : CompleteTreeStep(c)

SpecConc == Init /\ [][NextConc]_vars

\* Every command, once per caller, interleaved, over a store that may fail.
NextAll ==
    \/ \E c \in Callers, layer \in InfoLayers : CallCompleteTree(c, layer)
    \/ \E c \in Callers, layer \in InfoLayers, claimed \in ClaimedRoots :
            CallLoadInfoOnce(c, layer, claimed)
    \/ \E c \in Callers, in \in UpdateInputs : CallUpdate(c, in)
    \/ \E c \in Callers : CompleteTreeStep(c) \/ CompleteTreeFault(c)
    \/ \E c \in Callers : LoadInfoStep(c) \/ LoadInfoFault(c)
    \/ \E c \in Callers : UpdateStep(c) \/ UpdateStoreError(c)

SpecAll == Init /\ [][NextAll]_vars

\* One complete_tree call over layers of roots of different depths.
NextDepth ==
    \/ \E layer \in DepthLayers : CallCompleteTree("p", layer)
    \/ CompleteTreeStep("p")

SpecDepth == InitDeep /\ [][NextDepth]_vars

\* One direct call of combine_nodes over a reliable store.
NextCombine ==
    \/ \E left \in CombineArgs, right \in CombineArgs :
            CallCombineNodes("p", left, right)
    \/ CombineStart("p", 1)
    \/ CombineWrite("p", 1)
    \/ CombineReturn("p")

SpecCombine == Init /\ [][NextCombine]_vars

\* One update_vaults / update_orders call for every height and every
\* modification map, over a reliable store.
NextUpdate ==
    \/ \E in \in AllUpdateInputs : CallUpdate("p", in)
    \/ UpdateStep("p")

SpecUpdate == Init /\ [][NextUpdate]_vars

\* The tree update_vaults returned is updated with a modification map, and
\* then with the same map again.
NextReupdate ==
    \/ \E in \in UpdateInputs : CallUpdate("p", in)
    \/ UpdateStep("p")
    \/ \E h \in 0..MaxHeight : \E mods \in ModMaps(h) : UpdateTree("p", mods)
    \/ RepeatUpdate("p")

SpecReupdate == Init /\ [][NextReupdate]_vars

(***************************************************************************)
(* Claims.                                                                 *)
(***************************************************************************)
IsPow2(n) == \E k \in 0..n : 2 ^ k = n

AllStored(st, layer) == \A i \in DOMAIN layer : layer[i] \in DOMAIN st

\* The balanced positional fold of a layer of length 2^k.
RECURSIVE FoldRoot(_)
FoldRoot(s) ==
    IF Len(s) = 1 THEN s[1]
    ELSE LET h == Len(s) \div 2
         IN  HashFact(MerkleNodeFact(FoldRoot(SubSeq(s, 1, h)),
                                     FoldRoot(SubSeq(s, h + 1, Len(s)))))

\* s with its elements i and i+1 exchanged.
SwapAt(s, i) ==
    [j \in DOMAIN s |-> IF j = i THEN s[i + 1] ELSE IF j = i + 1 THEN s[i] ELSE s[j]]

CompleteTreeEnded(c) == proc[c].op = "complete_tree" /\ Ended(proc[c])

\* C1: for every layer of length 2^k whose tokens are all stored, complete_tree
\* returns the balanced positional fold of the layer: root(layer) =
\* combine(root(left half), root(right half)), root([x]) = x.
C1_BalancedFold ==
    \A c \in Callers :
        (/\ CompleteTreeEnded(c)
         /\ IsPow2(Len(proc[c].nodes))
         /\ AllStored(hist[c].store0, proc[c].nodes))
        => /\ proc[c].pc = "done"
           /\ proc[c].result = FoldRoot(proc[c].nodes)

\* A four-element layer with distinct first two elements has been completed,
\* and the layer with those two exchanged has another root.
C1_Witness ==
    \E c \in Callers :
        /\ CompleteTreeEnded(c) /\ proc[c].pc = "done"
        /\ Len(proc[c].nodes) = 4
        /\ proc[c].nodes[1] # proc[c].nodes[2]
        /\ proc[c].result = HashFact(MerkleNodeFact(
                HashFact(MerkleNodeFact(proc[c].nodes[1], proc[c].nodes[2])),
                HashFact(MerkleNodeFact(proc[c].nodes[3], proc[c].nodes[4]))))
        /\ proc[c].result # FoldRoot(SwapAt(proc[c].nodes, 1))

\* C3 (as claimed): complete_tree fails with a validation error (the
\* power-of-two assertion), returning no root, for every layer whose length is
\* not a power of two, length 0 included, and passes the check otherwise.
C3_LengthValidation ==
    \A c \in Callers :
        CompleteTreeEnded(c) =>
            IF IsPow2(Len(proc[c].nodes))
            THEN proc[c].err \notin {"AssertionError", "ValueError"}
            ELSE /\ proc[c].pc = "failed"
                 /\ proc[c].err = "AssertionError"
                 /\ proc[c].result = NoToken

\* The part of C3 that the code satisfies: every length of 3 or more that is
\* not a power of two fails on the power-of-two assertion, the empty layer
\* fails on the logarithm, and the lengths 1, 2, 4 pass the check.
C3_LengthCheckAsCoded ==
    \A c \in Callers :
        CompleteTreeEnded(c) =>
            IF IsPow2(Len(proc[c].nodes))
            THEN proc[c].err \notin {"AssertionError", "ValueError"}
            ELSE /\ proc[c].pc = "failed"
                 /\ proc[c].result = NoToken
                 /\ proc[c].err = IF Len(proc[c].nodes) = 0
                                  THEN "ValueError" ELSE "AssertionError"

\* C4: complete_tree over a power-of-two layer with a token that has no stored
\* fact fails with a not-found error and returns no root, whichever position
\* the missing token has.
C4_MissingTokenNotFound ==
    \A c \in Callers :
        (/\ CompleteTreeEnded(c)
         /\ IsPow2(Len(proc[c].nodes))
         /\ ~AllStored(hist[c].store0, proc[c].nodes))
        => /\ proc[c].pc = "failed"
           /\ proc[c].err = "NotFound"
           /\ proc[c].result = NoToken

\* The call failed with not-found on a layer whose only missing token is the
\* last of four.
C4_Witness ==
    \E c \in Callers :
        /\ CompleteTreeEnded(c)
        /\ Len(proc[c].nodes) = 4
        /\ \A i \in 1..3 : proc[c].nodes[i] \in DOMAIN hist[c].store0
        /\ proc[c].nodes[4] \notin DOMAIN hist[c].store0
        /\ proc[c].pc = "failed" /\ proc[c].err = "NotFound"

\* C5: complete([x]) for a stored token x returns x and performs no combination
\* write: the store after the call is the store before it.
C5_SingleElement ==
    \A c \in Callers :
        (/\ CompleteTreeEnded(c)
         /\ Len(proc[c].nodes) = 1
         /\ AllStored(hist[c].store0, proc[c].nodes))
        => /\ proc[c].pc = "done"
           /\ proc[c].result = proc[c].nodes[1]
           /\ hist[c].started = << >>
           /\ hist[c].added = {}
           /\ store = hist[c].store0

C5_Witness ==
    \E c \in Callers :
        /\ CompleteTreeEnded(c) /\ proc[c].pc = "done"
        /\ Len(proc[c].nodes) = 1
        /\ proc[c].result = SubtreeRoot(1)
        /\ store = InitStore

\* The pair combinations of level l of a layer of n tokens.
LevelSize(n, l) == n \div (2 ^ l)

\* C6: within one complete_tree call no combination of level i+1 starts before
\* every combination of level i has completed.
C6_LevelBarrier ==
    \A c \in Callers :
        \A l \in DOMAIN hist[c].started :
            hist[c].started[l] > 0 =>
                \A j \in 1..(l - 1) :
                    hist[c].finished[j] = LevelSize(Len(proc[c].nodes), j)

\* A combination of the second level has started after the two combinations
\* of the first level have both completed.
C6_Witness ==
    \E c \in Callers :
        /\ Len(hist[c].started) = 2
        /\ hist[c].started[2] = 1
        /\ hist[c].finished[1] = 2

\* Within a level the combinations interleave: the second pair has completed
\* while the first has not started.
C6_InterleavedWitness ==
    \E c \in Callers :
        /\ proc[c].pc = "gather" /\ Len(proc[c].tasks) = 2
        /\ proc[c].tasks[1].st = "pending"
        /\ proc[c].tasks[2].st = "done"

LoadInfoRun(c) == proc[c].op = "load_info"

\* The batch-level state is as it was when the run started.
BatchStateUnchanged(c) ==
    batchInfo = hist[c].info0 /\ nextBatchId = hist[c].next0

\* Batch Info is written only after complete_tree has returned a root that
\* equals the claimed order root.
CommitOnlyAfterCheck(c) ==
    (LoadInfoRun(c) /\ hist[c].committed) =>
        /\ hist[c].returned # NoToken
        /\ hist[c].returned = proc[c].claimed

\* C2 (as claimed): Batch Info is written only after the computation and the
\* cross-check have succeeded, and a run that fails (invalid layer, missing
\* token, store failure, differing roots) changes neither the Batch Info
\* record nor the next-batch-id counter.
C2_NoCommitOnAnyFailure ==
    \A c \in Callers :
        /\ CommitOnlyAfterCheck(c)
        /\ (LoadInfoRun(c) /\ proc[c].pc = "failed") => BatchStateUnchanged(c)

\* C2 (amended): as claimed for every failure up to and including the Batch
\* Info write; when the later counter write fails, the already written Batch
\* Info record of the verified root stays and the counter is unchanged.
C2_NoCommitBeforeCheck ==
    \A c \in Callers :
        /\ CommitOnlyAfterCheck(c)
        /\ (LoadInfoRun(c) /\ proc[c].pc = "failed" /\ ~hist[c].committed)
              => BatchStateUnchanged(c)
        /\ (LoadInfoRun(c) /\ proc[c].pc = "failed" /\ hist[c].committed)
              => /\ proc[c].err = "StoreError" /\ proc[c].set_next
                 /\ nextBatchId = hist[c].next0
                 /\ batchInfo = [hist[c].info0 EXCEPT ![proc[c].batch_id] =
                                    BatchInfoRecord(hist[c].returned)]

\* A run whose roots differ has failed on the cross-check with the batch state
\* untouched, after an earlier run committed a batch.
C2_Witness ==
    \E c \in Callers :
        /\ LoadInfoRun(c) /\ proc[c].pc = "failed"
        /\ proc[c].err = "AssertionError"
        /\ IsPow2(Len(proc[c].nodes))
        /\ hist[c].returned = FoldRoot(proc[c].nodes)
        /\ proc[c].claimed # hist[c].returned
        /\ \E b \in BatchIds : batchInfo[b].written
        /\ BatchStateUnchanged(c)

\* C7 (as claimed): no load_info run leaves the next-batch-id counter lower
\* than it was before that run.
C7_CounterMonotonic ==
    \A c \in Callers : LoadInfoRun(c) => nextBatchId >= hist[c].next0

\* The counter write of a run has failed after the run's Batch Info write.
C2_LateFailureWitness ==
    \E c \in Callers :
        /\ LoadInfoRun(c) /\ proc[c].pc = "failed" /\ hist[c].committed
        /\ batchInfo # hist[c].info0

\* The internal facts of the balanced fold of a layer.
RECURSIVE FoldFacts(_)
FoldFacts(s) ==
    IF Len(s) = 1 THEN {}
    ELSE LET h == Len(s) \div 2
             l == SubSeq(s, 1, h)
             r == SubSeq(s, h + 1, Len(s))
         IN  {MerkleNodeFact(FoldRoot(l), FoldRoot(r))}
             \cup FoldFacts(l) \cup FoldFacts(r)

\* The store a single successful complete_tree(layer) leaves, from store st.
StoreAfterOneRun(st, layer) ==
    LET new == {f \in FoldFacts(layer) : HashFact(f) \notin DOMAIN st}
    IN  [k \in DOMAIN st \cup {HashFact(f) : f \in new} |->
            IF k \in DOMAIN st THEN st[k]
            ELSE CHOOSE f \in new : HashFact(f) = k]

\* Every stored key is the hash of its value.
KeysAreHashes == \A k \in DOMAIN store : HashFact(store[k]) = k

\* A step keeps every stored fact, with its value.
FactsKept ==
    \A k \in DOMAIN store : k \in DOMAIN store' /\ store'[k] = store[k]

\* C8: facts are write-once: across every sequence and interleaving of update,
\* complete_tree and load_info, successful or failed, a fact once stored stays
\* stored with the same value, and every stored key is the hash of its value.
C8_WriteOnce == [](KeysAreHashes) /\ [][FactsKept]_vars

\* Both callers have ended, one failed and one not, and facts were added by
\* an update and by a completion.
C8_Witness ==
    /\ proc["p"].op = "update" /\ proc["p"].pc = "done"
    /\ hist["p"].added # {}
    /\ proc["q"].op \in {"complete_tree", "load_info"}
    /\ proc["q"].pc = "failed" /\ proc["q"].err = "StoreError"
    /\ hist["q"].added # {}
    /\ Cardinality(DOMAIN store) > Cardinality(DOMAIN InitStore) + 2

\* C9: two concurrent complete_tree calls over the same layer both return the
\* same root, and the final store is the store a single call produces.
C9_ConcurrentDuplicates ==
    (/\ CompleteTreeEnded("p") /\ CompleteTreeEnded("q")
     /\ proc["p"].nodes = proc["q"].nodes
     /\ IsPow2(Len(proc["p"].nodes))
     /\ AllStored(InitStore, proc["p"].nodes))
    => /\ proc["p"].pc = "done" /\ proc["q"].pc = "done"
       /\ proc["p"].result = proc["q"].result
       /\ proc["p"].result = FoldRoot(proc["p"].nodes)
       /\ store = StoreAfterOneRun(InitStore, proc["p"].nodes)

\* Both calls completed a four-element layer, and each of them added a fact:
\* their writes interleaved.
C9_Witness ==
    /\ CompleteTreeEnded("p") /\ CompleteTreeEnded("q")
    /\ proc["p"].pc = "done" /\ proc["q"].pc = "done"
    /\ Len(proc["p"].nodes) = 4
    /\ hist["p"].added # {} /\ hist["q"].added # {}

\* C10: running complete_tree again on the same layer, after a successful run
\* or after a run that failed partway, returns the root of a single successful
\* run and leaves the store of a single successful run; the second run of a
\* successful call adds no fact.
C10_RetrySafe ==
    \A c \in Callers :
        (/\ CompleteTreeEnded(c) /\ proc[c].pc = "done"
         /\ hist[c].retry # "none")
        => /\ proc[c].result = FoldRoot(proc[c].nodes)
           /\ store = StoreAfterOneRun(hist[c].store0, proc[c].nodes)
           /\ hist[c].retry = "after_ok" => hist[c].added = {}

\* A retry after a run that failed partway through its combinations has
\* succeeded, writing only what the failed run had left unwritten.
C10_Witness ==
    \E c \in Callers :
        /\ CompleteTreeEnded(c) /\ proc[c].pc = "done"
        /\ hist[c].retry = "after_partial"
        /\ Len(proc[c].nodes) = 4
        /\ Cardinality(hist[c].added) \in {1, 2}
        /\ Cardinality(DOMAIN store) = Cardinality(DOMAIN hist[c].store0) + 3

UpdateEnded(c) == proc[c].op = "update" /\ proc[c].pc = "done"

\* The leaf an index holds after the modifications mods of an all-empty tree.
LeafOf(mods, i) == IF i \in DOMAIN mods THEN LeafFact(mods[i]) ELSE EmptyLeaf

\* C11: for every height h and every modification map M over [0, 2^h), the
\* tree update_vaults / update_orders return, update(empty_tree(h), M),
\* resolves every index i of [0, 2^h) to M[i] when i is in M and to the Empty
\* leaf otherwise.
C11_UpdateResolves ==
    \A c \in Callers :
        (UpdateEnded(c) /\ proc[c].upd = "first") =>
            \A i \in Indices(proc[c].height) :
                Resolve(store, proc[c].tree.root, proc[c].height, i)
                    = LeafOf(proc[c].mods, i)

\* The scenario of height 2 with the leaves 0 and 2 set: the root returned is
\* combine(combine(leaf 0, Empty), combine(leaf 2, Empty)).
C11_Witness ==
    \E c \in Callers :
        /\ UpdateEnded(c) /\ proc[c].upd = "first"
        /\ proc[c].height = 2
        /\ proc[c].mods = (0 :> 1 @@ 2 :> 2)
        /\ proc[c].tree.root = HashFact(MerkleNodeFact(
              HashFact(MerkleNodeFact(HashFact(LeafFact(1)), HashFact(EmptyLeaf))),
              HashFact(MerkleNodeFact(HashFact(LeafFact(2)), HashFact(EmptyLeaf)))))
        /\ Resolve(store, proc[c].tree.root, 2, 2) = LeafFact(2)
        /\ Resolve(store, proc[c].tree.root, 2, 3) = EmptyLeaf

\* C12: bulk update is idempotent: update(update(T, M), M) has the root of
\* update(T, M), and an update with the empty modification map returns a tree
\* with the root of the tree updated.
C12_UpdateIdempotent ==
    \A c \in Callers :
        /\ (UpdateEnded(c) /\ proc[c].upd = "repeat")
              => proc[c].tree.root = proc[c].tree0.root
        /\ (UpdateEnded(c) /\ DOMAIN proc[c].mods = {})
              => proc[c].tree.root = proc[c].tree0.root

\* A tree with the leaves 0 and 2 set was updated at index 1, and then with
\* the same map again: the second update returned the root of the first, a
\* tree that holds the three leaves.
C12_Witness ==
    \E c \in Callers :
        /\ UpdateEnded(c) /\ proc[c].upd = "repeat"
        /\ proc[c].height = 2
        /\ proc[c].mods = (1 :> 2)
        /\ proc[c].tree.root = proc[c].tree0.root
        /\ Resolve(store, proc[c].tree.root, 2, 0) = LeafFact(1)
        /\ Resolve(store, proc[c].tree.root, 2, 1) = LeafFact(2)
        /\ Resolve(store, proc[c].tree.root, 2, 2) = LeafFact(2)

\* An update with the empty map of a tree that is not empty returned the root
\* of that tree.
C12_EmptyMapWitness ==
    \E c \in Callers :
        /\ UpdateEnded(c) /\ proc[c].upd = "next"
        /\ DOMAIN proc[c].mods = {}
        /\ proc[c].tree.root = proc[c].tree0.root
        /\ proc[c].tree.root # EmptyRoot(proc[c].height)

\* C13: the tree update_vaults / update_orders return for the height parameter
\* h has height h, whatever the modification map, and the empty tree the
\* update started from stays valid: its root resolves every index to the Empty
\* leaf while the update writes and after it has returned.
C13_HeightKept ==
    \A c \in Callers :
        /\ (UpdateEnded(c) /\ proc[c].upd = "first")
              => /\ proc[c].tree.height = proc[c].height
                 /\ proc[c].tree0 =
                        MerkleTreeNode(EmptyRoot(proc[c].height), proc[c].height)
        /\ (proc[c].op = "update" /\ proc[c].upd = "first")
              => \A i \in Indices(proc[c].height) :
                    Resolve(store, proc[c].tree0.root, proc[c].tree0.height, i)
                        = EmptyLeaf

\* A tree of height 2 with two leaves set has been returned: its root differs
\* from the root of the empty tree, which still resolves index 0 to Empty.
C13_Witness ==
    \E c \in Callers :
        /\ UpdateEnded(c) /\ proc[c].upd = "first"
        /\ proc[c].height = 2 /\ proc[c].tree.height = 2
        /\ Cardinality(DOMAIN proc[c].mods) = 2
        /\ proc[c].tree.root # proc[c].tree0.root
        /\ Resolve(store, proc[c].tree.root, 2, 0) = LeafFact(2)
        /\ Resolve(store, proc[c].tree0.root, 2, 0) = EmptyLeaf

CombineEnded(c) == proc[c].op = "combine_nodes" /\ Ended(proc[c])

\* C14: combine_nodes(left, right) fails with the validation error of its
\* assertion, writing no fact, whenever left.height differs from right.height;
\* with equal heights it writes exactly the internal fact (left.root,
\* right.root) and returns the node whose root is the key of that fact and
\* whose height is left.height + 1.
C14_CombineNodes ==
    \A c \in Callers :
        CombineEnded(c) =>
            LET left == proc[c].tasks[1].left
                right == proc[c].tasks[1].right
                fact == MerkleNodeFact(left.root, right.root)
            IN  IF left.height # right.height
                THEN /\ proc[c].pc = "failed"
                     /\ proc[c].err = "AssertionError"
                     /\ proc[c].result = NoToken
                     /\ hist[c].added = {}
                     /\ store = hist[c].store0
                ELSE /\ proc[c].pc = "done"
                     /\ store = write_node_fact(hist[c].store0, fact)
                     /\ proc[c].tree =
                            MerkleTreeNode(HashFact(fact), left.height + 1)

\* A call with nodes of heights 0 and 1 has failed on the assertion with the
\* store as it was.
C14_Witness ==
    \E c \in Callers :
        /\ CombineEnded(c) /\ proc[c].pc = "failed"
        /\ proc[c].err = "AssertionError"
        /\ proc[c].tasks[1].left.height = 0
        /\ proc[c].tasks[1].right.height = 1
        /\ store = InitStore

\* A call with two nodes of height 1 has returned a node of height 2 whose
\* fact is new in the store.
C14_EqualHeightsWitness ==
    \E c \in Callers :
        /\ CombineEnded(c) /\ proc[c].pc = "done"
        /\ proc[c].tasks[1].left.height = 1
        /\ proc[c].tree.height = 2
        /\ hist[c].added = {proc[c].tree.root}
        /\ store[proc[c].tree.root] =
              MerkleNodeFact(SubtreeRoot(1), SubtreeRoot(2))

\* C15: complete_tree gives every input node the placeholder height 0, so
\* whatever the depths of the subtrees supplied, every node of the working
\* layer after r rounds has height r, the two nodes of every pair have equal
\* heights, and the equal-height assertion of combine_nodes never fails: the
\* only assertion that fails is the one on the length of the layer.
C15_PlaceholderHeights ==
    \A c \in Callers :
        proc[c].op = "complete_tree" =>
            /\ proc[c].pc \in {"probe", "loop"} =>
                  \A i \in DOMAIN proc[c].subtrees :
                      proc[c].subtrees[i].height = proc[c].round
            /\ \A i \in DOMAIN proc[c].tasks :
                  /\ proc[c].tasks[i].st # "failed"
                  /\ proc[c].tasks[i].left.height = proc[c].round
                  /\ proc[c].tasks[i].right.height = proc[c].round
                  /\ proc[c].tasks[i].st = "done"
                        => proc[c].tasks[i].res.height = proc[c].round + 1
            /\ proc[c].exc = "none"
            /\ proc[c].err = "AssertionError" => ~IsPow2(Len(proc[c].nodes))

\* A layer whose first token is the root of a subtree of depth 1 and whose
\* second is the root of a subtree of depth 2 has been completed.
C15_Witness ==
    \E c \in Callers :
        /\ CompleteTreeEnded(c) /\ proc[c].pc = "done"
        /\ Len(proc[c].nodes) = 4
        /\ TrueDepth(store, proc[c].nodes[1]) = 1
        /\ TrueDepth(store, proc[c].nodes[2]) = 2
        /\ proc[c].result = FoldRoot(proc[c].nodes)

RECURSIVE SumSeq(_)
SumSeq(s) == IF s = << >> THEN 0 ELSE Head(s) + SumSeq(Tail(s))

\* A complete_tree call on a layer of length 2^k whose tokens are all stored.
ValidCall(c) ==
    /\ proc[c].op = "complete_tree"
    /\ IsPow2(Len(proc[c].nodes))
    /\ AllStored(hist[c].store0, proc[c].nodes)

\* The safety part of C16.
RoundsOfValidCall ==
    \A c \in Callers :
        ValidCall(c) =>
            LET k == IntLog2(Len(proc[c].nodes))
            IN  /\ proc[c].pc # "failed"
                /\ proc[c].round <= k
                /\ proc[c].pc \in {"loop", "gather", "done"}
                      => Len(proc[c].subtrees) = 2 ^ (k - proc[c].round)
                /\ proc[c].pc = "done"
                      => /\ proc[c].round = k
                         /\ Len(hist[c].started) = k
                         /\ Len(proc[c].subtrees) = 1
                         /\ SumSeq(hist[c].finished) = 2 ^ k - 1

\* C16: for a valid layer of length 2^k complete_tree terminates, after
\* exactly k rounds: the working layer has length 2^(k-r) after round r, no
\* internal assertion fails, and 2^k - 1 pair combinations are performed in
\* total.
C16_RoundCount ==
    /\ []RoundsOfValidCall
    /\ \A c \in Callers : ValidCall(c) ~> (proc[c].pc = "done")

\* A layer of four tokens has been completed in two rounds of two and one
\* combinations.
C16_Witness ==
    \E c \in Callers :
        /\ ValidCall(c) /\ proc[c].pc = "done"
        /\ Len(proc[c].nodes) = 4
        /\ proc[c].round = 2
        /\ hist[c].finished = <<2, 1>>

\* The state part of C17: a run is about to write the counter only with the
\* flag, after its cross-check has passed and its Batch Info record has been
\* written; the counter differs from its value at the start of the run only
\* after that write, and then it is batch_id + 1; a run without the flag and a
\* failed run leave it as it was.
CounterWriteGuarded ==
    \A c \in Callers :
        LoadInfoRun(c) =>
            /\ proc[c].pc = "set_next"
                  => /\ proc[c].set_next
                     /\ hist[c].committed
                     /\ hist[c].returned # NoToken
                     /\ hist[c].returned = proc[c].claimed
                     /\ batchInfo[proc[c].batch_id]
                            = BatchInfoRecord(proc[c].claimed)
            /\ (proc[c].pc = "done" /\ proc[c].set_next)
                  => nextBatchId = proc[c].batch_id + 1
            /\ (proc[c].pc # "done" \/ ~proc[c].set_next)
                  => nextBatchId = hist[c].next0

\* The step part of C17: the counter changes only in the counter write of a
\* run, to batch_id + 1.
CounterWriteStep ==
    nextBatchId' # nextBatchId =>
        \E c \in Callers :
            /\ LoadInfoRun(c)
            /\ proc[c].pc = "set_next" /\ proc'[c].pc = "done"
            /\ nextBatchId' = proc[c].batch_id + 1

\* C17: in load_info the next-batch-id counter is written only in a run that
\* has --set_next_batch_id, has passed the root cross-check and has written
\* the Batch Info record, and the value written is batch_id + 1; a successful
\* run without the flag leaves the counter unchanged.
C17_CounterWrite == []CounterWriteGuarded /\ [][CounterWriteStep]_vars

\* A run without the flag has succeeded and left the counter at 2, the value
\* the run before it wrote for batch 1.
C17_Witness ==
    \E c \in Callers :
        /\ LoadInfoRun(c) /\ proc[c].pc = "done"
        /\ ~proc[c].set_next
        /\ hist[c].committed
        /\ hist[c].next0 = 2
        /\ nextBatchId = 2
        /\ batchInfo[1].written

\* A complete_tree call whose layer violates a precondition: its length is
\* not a power of two, or one of its tokens has no stored fact.
InvalidCall(c) ==
    /\ proc[c].op = "complete_tree"
    /\ \/ ~IsPow2(Len(proc[c].nodes))
       \/ ~AllStored(hist[c].store0, proc[c].nodes)

\* C18: a precondition failure of complete_tree leaves the store unchanged:
\* the length check and the probe of every token precede the first
\* combination, so when the length is not a power of two or a token is
\* missing, the call fails, no combination has started and no fact has been
\* written.
C18_PreconditionsFirst ==
    \A c \in Callers :
        InvalidCall(c) =>
            /\ proc[c].pc \in {"probe", "failed"}
            /\ hist[c].started = << >>
            /\ proc[c].tasks = << >>
            /\ hist[c].added = {}
            /\ store = hist[c].store0

\* A call on a layer of two tokens, the first stored and the second not, has
\* failed with the store as it was.
C18_Witness ==
    \E c \in Callers :
        /\ InvalidCall(c) /\ proc[c].pc = "failed"
        /\ Len(proc[c].nodes) = 2
        /\ proc[c].nodes[1] \in DOMAIN hist[c].store0
        /\ proc[c].nodes[2] \notin DOMAIN hist[c].store0
        /\ store = InitStore

\* A call on a layer of three stored tokens has failed on the length check
\* with the store as it was.
C18_LengthWitness ==
    \E c \in Callers :
        /\ InvalidCall(c) /\ proc[c].pc = "failed"
        /\ Len(proc[c].nodes) = 3
        /\ AllStored(hist[c].store0, proc[c].nodes)
        /\ proc[c].err = "AssertionError"
        /\ store = InitStore

\* The tokens of the layer below the node at position i of the working layer
\* after r rounds.
Below(nodes, r, i) == SubSeq(nodes, (i - 1) * 2 ^ r + 1, i * 2 ^ r)

\* C19: the root complete_tree returns does not depend on the scheduling: for
\* a fixed layer and initial store, in every order in which the combinations
\* of a level start and finish, the result of each combination stands at the
\* position of its pair in the next layer, and the returned root and the final
\* store are the fold root of the layer and the store of the fold's facts.
C19_ScheduleIndependent ==
    \A c \in Callers :
        proc[c].op = "complete_tree" =>
            /\ proc[c].pc = "loop"
                  => \A i \in DOMAIN proc[c].subtrees :
                        proc[c].subtrees[i].root
                            = FoldRoot(Below(proc[c].nodes, proc[c].round, i))
            /\ proc[c].pc = "done"
                  => /\ proc[c].result = FoldRoot(proc[c].nodes)
                     /\ store = StoreAfterOneRun(hist[c].store0, proc[c].nodes)

\* A layer of four tokens whose two pairs differ has been completed in a run
\* in which the second pair's combination finished before the first pair's.
C19_Witness ==
    \E c \in Callers :
        /\ CompleteTreeEnded(c) /\ proc[c].pc = "done"
        /\ Len(proc[c].nodes) = 4
        /\ hist[c].reordered
        /\ FoldRoot(SubSeq(proc[c].nodes, 1, 2))
              # FoldRoot(SubSeq(proc[c].nodes, 3, 4))
        /\ proc[c].result = FoldRoot(proc[c].nodes)

\* The same layer completed in a run in which the combinations finished in
\* the order of their pairs.
C19_InOrderWitness ==
    \E c \in Callers :
        /\ CompleteTreeEnded(c) /\ proc[c].pc = "done"
        /\ proc[c].nodes =
              <<SubtreeRoot(1), SubtreeRoot(2), SubtreeRoot(2), SubtreeRoot(1)>>
        /\ ~hist[c].reordered

====
